---- MODULE Spec2Model ----
(***************************************************************************)
(* A model of the gemini_image_gen scripts: generate.py (interactive loop  *)
(* and one-shot mode), core.py (the library with the four generation       *)
(* functions and _save_response_image) and the two project scripts.        *)
(*                                                                         *)
(* One run of one script is modelled: start-up (credential check, client,  *)
(* output directory), the dispatch on the command line, the interactive    *)
(* loop, the remote call and the extraction of the response, one response  *)
(* part per step.  The file system (directories and files of the output    *)
(* directories), the wall clock and the console are part of the state.     *)
(* User text is a sequence of one-character strings, so that strip(),      *)
(* lower() and " ".join() are computed and not assumed.  The interactive   *)
(* loop goes on for as long as the user likes, within the horizon of the   *)
(* clock.  core.py has no entry point of its own: it is run by a caller    *)
(* that imports it, makes one call of one of its four functions and ends.  *)
(***************************************************************************)
EXTENDS Naturals, Sequences, FiniteSets, TLC

(* ------------------------------------------------------------------ *)
(* Bounds of the model                                                 *)
(* ------------------------------------------------------------------ *)

\* Longest response, in parts.
MaxParts == 2

\* Last clock tick of a run (the clock starts at tick 0).
MaxClock == 2

\* Most saves by invocations that run at the same time in other processes.
MaxPeerSaves == 1

\* Clock ticks per wall-clock second: the clock is finer than the file name.
TicksPerSecond == 2

(* ------------------------------------------------------------------ *)
(* Text                                                                *)
(* ------------------------------------------------------------------ *)

\* Python's None.
None == "None"

UPPERCASE == <<"A", "B", "D", "E", "F", "G", "I", "J", "L", "M", "N", "O", "P", "Q", "T", "U", "W">>
LOWERCASE == <<"a", "b", "d", "e", "f", "g", "i", "j", "l", "m", "n", "o", "p", "q", "t", "u", "w">>

\* str.lower() on one character (of the letters the model's texts use).
LowerChar(c) ==
    IF \E i \in 1..Len(UPPERCASE) : UPPERCASE[i] = c
    THEN LOWERCASE[CHOOSE i \in 1..Len(UPPERCASE) : UPPERCASE[i] = c]
    ELSE c

\* str.lower().
Lower(s) == [i \in 1..Len(s) |-> LowerChar(s[i])]

\* The characters str.strip() removes.
IsSpace(c) == c \in {" ", "\t"}

RECURSIVE LStrip(_)
\* str.lstrip().
LStrip(s) == IF s # <<>> /\ IsSpace(Head(s)) THEN LStrip(Tail(s)) ELSE s

RECURSIVE RStrip(_)
\* str.rstrip().
RStrip(s) ==
    IF s # <<>> /\ IsSpace(s[Len(s)]) THEN RStrip(SubSeq(s, 1, Len(s) - 1)) ELSE s

\* str.strip().
Strip(s) == RStrip(LStrip(s))

RECURSIVE Join(_)
\* " ".join(words).
Join(words) ==
    IF words = <<>> THEN <<>>
    ELSE IF Len(words) = 1 THEN words[1]
    ELSE words[1] \o <<" ">> \o Join(Tail(words))

QUIT == <<"q", "u", "i", "t">>
MODEL == <<"m", "o", "d", "e", "l">>

\* What the user may type at the loop's prompt.
Inputs ==
    { <<>>, <<" ">>,
      QUIT, <<" ", "Q", "u", "I", "T", " ">>, <<"q", "u", "i", "t", "s">>,
      MODEL, <<"M", "o", "d", "e", "l", " ">>,
      <<" ", "a", " ", "d", "o", "g">> }

\* What the user may type when asked for a model number.
Choices == { <<>>, <<"1">>, <<"2">>, <<" ", "3", " ">>, <<"2", "2">>, <<"x">> }

(* ------------------------------------------------------------------ *)
(* Scripts, models, prompts                                            *)
(* ------------------------------------------------------------------ *)

Scripts == {"generate", "core", "mbe", "beijing"}

\* What os.getenv("GEMINI_API_KEY") may give after load_dotenv().
Environs == {None, "", "key"}

FLASH_IMAGE == "gemini-2.5-flash-image"
PRO_IMAGE == "gemini-3-pro-image-preview"
IMAGEN == "imagen-4.0-generate-001"
FLASH_EXP == "gemini-2.0-flash-exp"

\* The models the interactive loop of generate.py offers.
LoopModels == {FLASH_IMAGE, PRO_IMAGE, IMAGEN}

\* The model arguments a caller of core.py passes.
CoreModels == {FLASH_EXP}

BATIO3_MBE_PROMPT == <<"B", "a", "T", "i", "O", "3">>
BEIJING_TRAVEL_STORY_PROMPT == <<"s", "t", "o", "r", "y">>
TRAVEL_VOCABULARY_LESSON_PROMPT == <<"v", "o", "c", "a", "b">>

\* sys.argv[1:] of each script; a flag is one word of one token.
Argvs(s) ==
    CASE s = "generate" ->
            { <<>>, << <<"c", "a", "t">> >>, << <<"a">>, <<"d", "o", "g">> >>,
              << <<>> >> }
      [] s = "mbe" -> { <<>>, << <<"--auto">> >>, << <<"--fast">> >> }
      [] s = "beijing" ->
            { <<>>, << <<"--story">> >>, << <<"--vocab">> >>, << <<"--both">> >>,
              << <<"--all">> >> }
      [] OTHER -> { <<>> }

\* What the user may type at a project script's menu.
MenuChoices == { <<"1">>, <<" ", "2">>, <<"3">>, <<"4">>, <<>> }

\* The prompts a caller of core.py passes.
CorePrompts == { <<"c", "a", "t">> }

\* The output_dir arguments a caller of core.py passes (path components).
OutputDirs == { <<"output">>, <<"out", "run">> }

\* The filename_prefix arguments a caller of core.py passes besides the defaults.
CorePrefixes == { "generated" }

\* OUTPUT_DIR of the scripts: the folder "output" beside the script.
OUTPUT_DIR == <<"output">>

(* ------------------------------------------------------------------ *)
(* Paths, files, console                                               *)
(* ------------------------------------------------------------------ *)

\* Mutant: a timestamp that keeps the fraction of the second.
Strftime_SubSecond(t) == t

\* datetime.now().strftime("%Y%m%d_%H%M%S"): the time cut to the whole second.
Strftime(t) == t \div TicksPerSecond

\* Mutant: the prefix of generate.py, whatever the caller's filename_prefix.
Filename_Generated(prefix, timestamp) ==
    [prefix |-> "generated", stamp |-> timestamp, ext |-> ".png"]

\* f"{filename_prefix}_{timestamp}.png"
Filename(prefix, timestamp) == [prefix |-> prefix, stamp |-> timestamp, ext |-> ".png"]

\* output_dir / filename
PathIn(dir, filename) == [dir |-> dir, name |-> filename]

\* image_path = None
NoPath == [dir |-> <<>>, name |-> [prefix |-> "", stamp |-> 0, ext |-> ""]]

\* The path an image saved now goes to: the three lines before part.as_image().
SavePath(dir, prefix, t) == PathIn(dir, Filename(prefix, Strftime(t)))

\* Mutant: mkdir without parents=True, taken to make the last directory only.
WithParents_Leaf(dir) == { dir }

\* The directory and all its ancestors: what mkdir(parents=True) makes exist.
WithParents(dir) == { SubSeq(dir, 1, n) : n \in 1..Len(dir) }

\* A console line.
Line(tag, text, path) == [tag |-> tag, text |-> text, path |-> path]

\* The file system after writing content to path p (created or overwritten).
Written(files, p, content) ==
    [q \in DOMAIN files \cup {p} |-> IF q = p THEN content ELSE files[q]]

\* The empty output tree.
NoFiles == [q \in {} |-> 0]

(* ------------------------------------------------------------------ *)
(* Requests and responses                                              *)
(* ------------------------------------------------------------------ *)

\* The text part of a request.
TextPart(t) == [kind |-> "text", text |-> t, mime_type |-> "", data |-> ""]

\* Path(image_path).suffix of the reference images a caller of core.py passes:
\* the known extensions in lower and other case, an unknown one, a longer one,
\* and none.
Suffixes ==
    { <<".", "p", "n", "g">>, <<".", "P", "n", "G">>,
      <<".", "j", "p", "g">>, <<".", "J", "P", "G">>,
      <<".", "j", "p", "e", "g">>, <<".", "J", "p", "e", "G">>,
      <<".", "w", "e", "b", "p">>, <<".", "W", "E", "B", "P">>,
      <<".", "g", "i", "f">>, <<".", "G", "i", "F">>,
      <<".", "b", "m", "p">>, <<".", "j", "p", "g", "x">>, <<>> }

\* Mutant: the table looked up with the suffix as written, without lower().
MimeType_CaseSensitive(suffix) ==
    CASE suffix = <<".", "p", "n", "g">> -> "image/png"
      [] suffix = <<".", "j", "p", "g">> -> "image/jpeg"
      [] suffix = <<".", "j", "p", "e", "g">> -> "image/jpeg"
      [] suffix = <<".", "w", "e", "b", "p">> -> "image/webp"
      [] suffix = <<".", "g", "i", "f">> -> "image/gif"
      [] OTHER -> "image/png"

\* The suffix -> mime type table of load_image_for_api, on the lowered suffix.
MimeType(suffix) ==
    LET low == Lower(suffix) IN
    CASE low = <<".", "p", "n", "g">> -> "image/png"
      [] low = <<".", "j", "p", "g">> -> "image/jpeg"
      [] low = <<".", "j", "p", "e", "g">> -> "image/jpeg"
      [] low = <<".", "w", "e", "b", "p">> -> "image/webp"
      [] low = <<".", "g", "i", "f">> -> "image/gif"
      [] OTHER -> "image/png"

\* The reference images a caller of core.py passes: the suffix of the path and
\* what is at the path ("missing": open() fails; "empty": a file of no bytes).
Refs ==
    { [suffix |-> x, file |-> "image"] : x \in Suffixes }
    \cup { [suffix |-> <<".", "p", "n", "g">>, file |-> "missing"],
           [suffix |-> <<>>, file |-> "empty"] }

\* types.Part.from_bytes(data=image_data, mime_type=mime_type)
ImagePart(ref) ==
    [kind |-> "image", text |-> <<>>, mime_type |-> MimeType(ref.suffix), data |-> ref.file]

\* The f-strings that wrap the caller's text in core.py.
StylePrompt(prompt) == <<"Look at this reference image carefully.">> \o prompt
                          \o <<"Maintain perfect style consistency.">>
EditPrompt(edit_instructions) == <<"Look at this image carefully.">> \o edit_instructions
                          \o <<"Generate the edited version now.">>
VariationPrompt(variation_instructions) == <<"Study this image carefully">> \o variation_instructions
                          \o <<"The result should be recognizably similar.">>

\* The functions of core.py that take a reference image.
RefFunctions == {"generate_with_style_reference", "edit_image", "regenerate_similar"}

\* The prompt each of them sends.
WrappedPrompt(fn, text) ==
    CASE fn = "generate_with_style_reference" -> StylePrompt(text)
      [] fn = "edit_image" -> EditPrompt(text)
      [] OTHER -> VariationPrompt(text)

\* The default filename_prefix of each function of core.py.
DefaultPrefix(fn) ==
    CASE fn = "generate_image" -> "generated"
      [] fn = "generate_with_style_reference" -> "styled"
      [] fn = "edit_image" -> "edited"
      [] OTHER -> "variation"

\* Mutant: the request asks for images only.
ResponseModalities_ImageOnly == {"IMAGE"}

\* config=types.GenerateContentConfig(response_modalities=['IMAGE', 'TEXT'])
ResponseModalities == {"IMAGE", "TEXT"}

\* client.models.generate_content(model=..., contents=..., config=...)
Request(model, contents) ==
    [model |-> model, contents |-> contents, response_modalities |-> ResponseModalities]

\* Before any request is sent.
NoRequest == [model |-> "", contents |-> <<>>, response_modalities |-> {}]

\* A part of a response: part.text and part.inline_data, each possibly None.
PartKinds == [text : {None, "note"}, inline_data : {None, "png"}]

\* candidates[0].content.parts of the responses of the remote service.
PartSeqs == UNION { [1..n -> PartKinds] : n \in 0..MaxParts }

\* A candidate of a response: whether .content.parts is a sequence (or None, as
\* for a candidate that was cut off before any content), and the sequence.
Candidate(has_parts, ps) == [has_parts |-> has_parts, parts |-> ps]

\* A response: whether .candidates is a sequence (or None), and the sequence.
Response(has_candidates, candidates) ==
    [received |-> TRUE, has_candidates |-> has_candidates, candidates |-> candidates]

\* No response yet.
NoResponse == [received |-> FALSE, has_candidates |-> FALSE, candidates |-> <<>>]

\* The responses of the remote service: without candidates (None or empty),
\* with one candidate, with or without parts, and with a second candidate that
\* carries an image after a first one of at most one part.
Responses ==
    { Response(FALSE, <<>>), Response(TRUE, <<>>),
      Response(TRUE, << Candidate(FALSE, <<>>) >>) }
    \cup { Response(TRUE, << Candidate(TRUE, ps) >>) : ps \in PartSeqs }
    \cup { Response(TRUE, << Candidate(TRUE, ps),
                             Candidate(TRUE, << [text |-> None,
                                                 inline_data |-> "png"] >>) >>) :
             ps \in { qs \in PartSeqs : Len(qs) <= 1 } }

\* Mutant: the parts of all candidates, one after the other.
ResponseParts_AllCandidates(r) ==
    IF Len(r.candidates) = 1 THEN r.candidates[1].parts
    ELSE r.candidates[1].parts \o r.candidates[2].parts

\* response.candidates[0].content.parts
ResponseParts(r) == r.candidates[1].parts

\* What evaluating response.candidates[0].content.parts and starting the for
\* loop over it raises, "" when it raises nothing.
ShapeError(r) ==
    IF ~r.has_candidates THEN "TypeError"
    ELSE IF r.candidates = <<>> THEN "IndexError"
    ELSE IF ~r.candidates[1].has_parts THEN "TypeError"
    ELSE ""

\* The errors the remote call raises: transport, authentication, quota.
CallErrors == {"transport", "auth", "quota"}

\* An invocation of a generation function.
Invocation(fn, contents, model, prefix, dir) ==
    [fn |-> fn, contents |-> contents, model |-> model, prefix |-> prefix, dir |-> dir]

NoInvocation == Invocation("", <<>>, "", "", <<>>)

\* What the user of the loop did: typed a line at the prompt ("input") or at
\* the model menu ("choice"), ended the input ("eof"), or interrupted.
Event(kind, text) == [kind |-> kind, text |-> text]
NoEvent == Event("none", <<>>)

\* How the last invocation ended.
Pending == [kind |-> "pending", path |-> NoPath, error |-> ""]
Returned(path) == [kind |-> "returned", path |-> path, error |-> ""]
Raised(error) == [kind |-> "raised", path |-> NoPath, error |-> error]

\* The wall-clock second tick t lies in.
ClockSecond(t) == t \div TicksPerSecond

\* A file: who wrote it ("own": this process, "peer": another), from which part
\* of its response, what it holds ("image": a whole PNG, "partial": what a
\* failed write left) and the wall-clock second of the write (its
\* modification time).
File(by, i, state, t) == [by |-> by, part |-> i, state |-> state, mtime |-> ClockSecond(t)]

(* ------------------------------------------------------------------ *)
(* State                                                               *)
(* ------------------------------------------------------------------ *)

VARIABLES
    script,         \* the script that runs
    environ,        \* os.getenv("GEMINI_API_KEY")
    argv,           \* sys.argv[1:]
    pc,             \* where the run is
    mode,           \* "loop" (interactive), "batch" (script, one shot), "lib" (core.py)
    exitCode,       \* the exit status, once pc = "exit"
    client,         \* whether genai.Client(...) has been constructed
    current_model,  \* main()'s current_model
    todo,           \* the generate_image calls a project script has still to make
    inv,            \* the invocation in progress (or the last one)
    calls,          \* remote calls issued by the invocation
    sent,           \* the last request sent to the remote service
    response,       \* the response of the remote call
    parts,          \* response.candidates[0].content.parts
    idx,            \* the part the for loop is at
    image_path,     \* the extractor's image_path
    result,         \* how the invocation ended
    fs,             \* the files of the output directories: path -> content
    dirs,           \* the directories that exist
    now,            \* the wall clock, in ticks
    out,            \* the console lines since the invocation (or prompt) began
    last            \* what the user of the interactive loop did last

vars == << script, environ, argv, pc, mode, exitCode, client, current_model, todo,
           inv, calls, sent, response, parts, idx, image_path, result, fs, dirs,
           now, out, last >>

\* The script and what it is started with.
startVars == << script, environ, argv >>
\* The same and the last thing the user did: what only the loop's input changes.
progVars == << script, environ, argv, last >>
\* The state of the extractor.
extractVars == << response, parts, idx, image_path >>
\* The world outside the process.
worldVars == << fs, dirs, now >>

Init ==
    /\ script \in Scripts
    /\ environ \in Environs
    /\ argv \in Argvs(script)
    /\ pc = "boot"
    /\ mode = "none"
    /\ exitCode = 0
    /\ client = FALSE
    /\ current_model = ""
    /\ todo = <<>>
    /\ inv = NoInvocation
    /\ calls = 0
    /\ sent = NoRequest
    /\ response = NoResponse
    /\ parts = <<>>
    /\ idx = 0
    /\ image_path = NoPath
    /\ result = Pending
    /\ fs = NoFiles
    /\ dirs = {}
    /\ now = 0
    /\ out = <<>>
    /\ last = NoEvent

(* ------------------------------------------------------------------ *)
(* Start-up and dispatch                                               *)
(* ------------------------------------------------------------------ *)

\* Mutant: the credential check is skipped.
HasKey_Unchecked(key) == TRUE

\* "if not API_KEY" is false: the key is there and not empty.
HasKey(key) == key # None /\ key # ""

\* The exit status of a script that ends on an uncaught exception.
UNCAUGHT == 1

\* The module-level code of a script: the credential check, the client and
\* OUTPUT_DIR.mkdir(exist_ok=True), which may fail (OSError, uncaught).
BootScript ==
    /\ pc = "boot"
    /\ script # "core"
    /\ IF ~HasKey(environ)
       THEN /\ out' = <<Line("Error: GEMINI_API_KEY not found", "", NoPath)>>
            /\ pc' = "exit"
            /\ exitCode' = 1
            /\ UNCHANGED <<client, dirs>>
       ELSE /\ client' = TRUE
            /\ \E mkdir_ok \in BOOLEAN :
                 IF mkdir_ok \/ OUTPUT_DIR \in dirs
                 THEN /\ dirs' = dirs \cup {OUTPUT_DIR}
                      /\ pc' = "dispatch"
                      /\ UNCHANGED <<exitCode, out>>
                 ELSE /\ out' = <<Line("Traceback", "OSError", NoPath)>>
                      /\ pc' = "exit"
                      /\ exitCode' = UNCAUGHT
                      /\ UNCHANGED dirs
    /\ UNCHANGED <<progVars, mode, current_model, todo, inv, calls, sent,
                   extractVars, result, fs, now>>

\* The module-level code of core.py: ValueError without the key (uncaught by
\* the importing program), else the client.
BootCore ==
    /\ pc = "boot"
    /\ script = "core"
    /\ IF ~HasKey(environ)
       THEN /\ out' = <<Line("Traceback", "ValueError", NoPath)>>
            /\ pc' = "exit"
            /\ exitCode' = UNCAUGHT
            /\ UNCHANGED <<client, mode>>
       ELSE /\ client' = TRUE
            /\ pc' = "idle"
            /\ mode' = "lib"
            /\ UNCHANGED <<exitCode, out>>
    /\ UNCHANGED <<progVars, current_model, todo, inv, calls, sent,
                   extractVars, result, worldVars>>

\* generate_image(prompt, model, prefix) of a script: it saves under OUTPUT_DIR.
ScriptCall(prompt, model, prefix) ==
    Invocation("generate_image", <<TextPart(prompt)>>, model, prefix, OUTPUT_DIR)

\* The calls the "__main__" block makes when it does not enter main().
OneShot(s, args) ==
    CASE s = "generate" -> << ScriptCall(Join(args), FLASH_IMAGE, "generated") >>
      [] s = "mbe" -> << ScriptCall(BATIO3_MBE_PROMPT, FLASH_IMAGE, "batio3_mbe") >>
      [] s = "beijing" /\ args[1] = <<"--story">> ->
            << ScriptCall(BEIJING_TRAVEL_STORY_PROMPT, PRO_IMAGE, "beijing_travel_story") >>
      [] s = "beijing" /\ args[1] = <<"--vocab">> ->
            << ScriptCall(TRAVEL_VOCABULARY_LESSON_PROMPT, PRO_IMAGE, "travel_vocabulary") >>
      [] s = "beijing" /\ args[1] = <<"--both">> ->
            << ScriptCall(BEIJING_TRAVEL_STORY_PROMPT, PRO_IMAGE, "beijing_travel_story"),
               ScriptCall(TRAVEL_VOCABULARY_LESSON_PROMPT, PRO_IMAGE, "travel_vocabulary") >>
      [] OTHER -> <<>>

\* Mutant: main() is called whatever the arguments.
EntersMain_Always(s, args) == TRUE

\* Whether the "__main__" block calls main().
EntersMain(s, args) ==
    CASE s = "generate" -> Len(args) = 0
      [] s = "mbe" -> ~(Len(args) > 0 /\ args[1] = <<"--auto">>)
      [] OTHER -> Len(args) = 0

\* The "__main__" block of a script.
Dispatch ==
    /\ pc = "dispatch"
    /\ IF EntersMain(script, argv)
       THEN /\ mode' = (IF script = "generate" THEN "loop" ELSE "batch")
            /\ pc' = (IF script = "generate" THEN "input" ELSE "menu")
            /\ current_model' = (IF script = "generate" THEN FLASH_IMAGE ELSE current_model)
            /\ out' = <<Line("banner", "", NoPath)>>
            /\ todo' = todo
       ELSE /\ mode' = "batch"
            /\ pc' = "next"
            /\ todo' = OneShot(script, argv)
            /\ UNCHANGED <<current_model, out>>
    /\ UNCHANGED <<progVars, exitCode, client, inv, calls, sent, extractVars,
                   result, worldVars>>

\* The calls main() of a project script makes for a menu choice.
MenuCalls(s, choice) ==
    CASE s = "mbe" /\ choice = <<"1">> ->
            << ScriptCall(BATIO3_MBE_PROMPT, FLASH_IMAGE, "batio3_mbe") >>
      [] s = "mbe" /\ choice = <<"2">> ->
            << ScriptCall(BATIO3_MBE_PROMPT, PRO_IMAGE, "batio3_mbe_pro") >>
      [] s = "beijing" /\ choice = <<"1">> ->
            << ScriptCall(BEIJING_TRAVEL_STORY_PROMPT, PRO_IMAGE, "beijing_travel_story") >>
      [] s = "beijing" /\ choice = <<"2">> ->
            << ScriptCall(TRAVEL_VOCABULARY_LESSON_PROMPT, PRO_IMAGE, "travel_vocabulary") >>
      [] s = "beijing" /\ choice = <<"3">> ->
            << ScriptCall(BEIJING_TRAVEL_STORY_PROMPT, PRO_IMAGE, "beijing_travel_story"),
               ScriptCall(TRAVEL_VOCABULARY_LESSON_PROMPT, PRO_IMAGE, "travel_vocabulary") >>
      [] OTHER -> <<>>

\* main() of a project script: choice = input(...).strip(), then the calls.
Menu ==
    /\ pc = "menu"
    /\ \E typed \in MenuChoices :
         /\ todo' = MenuCalls(script, Strip(typed))
         /\ pc' = "next"
    /\ UNCHANGED <<progVars, mode, exitCode, client, current_model, inv, calls,
                   sent, extractVars, result, worldVars, out>>

\* The locals of a call that has ended are gone.
ClearLocals ==
    response' = NoResponse /\ parts' = <<>> /\ idx' = 0 /\ image_path' = NoPath

\* The print lines that open generate_image of a script.
Banner(i) == << Line("Generating image", "", NoPath), Line("Model", i.model, NoPath) >>

\* A batch run goes on: the next generate_image call begins, or the script ends.
BatchNext ==
    /\ pc = "next"
    /\ IF todo = <<>>
       THEN /\ pc' = "exit"
            /\ exitCode' = 0
            /\ UNCHANGED <<todo, inv, calls, out, result, extractVars>>
       ELSE /\ pc' = "call"
            /\ inv' = Head(todo)
            /\ todo' = Tail(todo)
            /\ calls' = 0
            /\ out' = Banner(Head(todo))
            /\ result' = Pending
            /\ ClearLocals
            /\ UNCHANGED exitCode
    /\ UNCHANGED <<progVars, mode, client, current_model, sent, worldVars>>

(* ------------------------------------------------------------------ *)
(* The interactive loop of generate.py                                 *)
(* ------------------------------------------------------------------ *)

\* Mutant: the quit command compared as typed, without lower().
IsQuit_CaseSensitive(user_input) == user_input = QUIT

\* user_input.lower() == 'quit'
IsQuit(user_input) == Lower(user_input) = QUIT

\* user_input.lower() == 'model'
IsModel(user_input) == Lower(user_input) = MODEL

\* Mutant: the branches for "2" and "3" exchanged.
ModelForChoice_Swapped(choice) ==
    IF choice = <<"2">> THEN IMAGEN
    ELSE IF choice = <<"3">> THEN PRO_IMAGE
    ELSE FLASH_IMAGE

\* The if / elif / else on the stripped choice.
ModelForChoice(choice) ==
    IF choice = <<"2">> THEN PRO_IMAGE
    ELSE IF choice = <<"3">> THEN IMAGEN
    ELSE FLASH_IMAGE

\* user_input = input(...).strip() and the branches up to the call of
\* generate_image: empty input, quit, model, or a prompt.  A new iteration of
\* the loop has begun: the result of the one before has been reported.
ReadInput ==
    /\ pc = "input"
    /\ mode = "loop"
    /\ \E typed \in Inputs :
         LET user_input == Strip(typed)
             call == ScriptCall(user_input, current_model, "generated")
         IN  /\ last' = Event("input", typed)
             /\ IF user_input = <<>>
                THEN /\ pc' = "input"
                     /\ out' = <<>>
                     /\ UNCHANGED <<exitCode, inv, calls>>
                ELSE IF IsQuit(user_input)
                THEN /\ pc' = "exit"
                     /\ exitCode' = 0
                     /\ out' = <<Line("Goodbye!", "", NoPath)>>
                     /\ UNCHANGED <<inv, calls>>
                ELSE IF IsModel(user_input)
                THEN /\ pc' = "choice"
                     /\ out' = <<Line("Select model", "", NoPath)>>
                     /\ UNCHANGED <<exitCode, inv, calls>>
                ELSE /\ pc' = "call"
                     /\ inv' = call
                     /\ calls' = 0
                     /\ out' = Banner(call)
                     /\ UNCHANGED exitCode
    /\ result' = Pending
    /\ ClearLocals
    /\ UNCHANGED <<startVars, mode, client, current_model, todo, sent, worldVars>>

\* choice = input("Enter 1, 2, or 3: ").strip() and the switch of the model.
ReadChoice ==
    /\ pc = "choice"
    /\ \E typed \in Choices :
         /\ last' = Event("choice", typed)
         /\ current_model' = ModelForChoice(Strip(typed))
         /\ out' = Append(out, Line("Switched to", ModelForChoice(Strip(typed)), NoPath))
    /\ pc' = "input"
    /\ UNCHANGED <<startVars, mode, exitCode, client, todo, inv, calls, sent,
                   extractVars, result, worldVars>>

\* Mutant: no handler anywhere, the error ends the process.
HandlerPc_Propagates(m) == "exit"

\* Where the run goes when an invocation raises: the loop's "except Exception"
\* goes back to input(); elsewhere nothing catches it and the run ends.
HandlerPc(m) == IF m = "loop" THEN "input" ELSE "exit"

\* Where the run goes when an invocation returns: back to input(), on to the
\* script's next call, or, for the caller of core.py, to its end.
ReturnPc(m) ==
    IF m = "loop" THEN "input" ELSE IF m = "lib" THEN "exit" ELSE "next"

\* What the loop prints for a result.
LoopReport(res) ==
    IF res.kind = "raised"
    THEN << Line("Error", res.error, NoPath), Line("Try again", "", NoPath) >>
    ELSE IF res.path # NoPath
    THEN << Line("Success! Image saved to", "", res.path) >>
    ELSE << Line("No image was generated", "", NoPath) >>

\* The invocation ends with res: returned to, or raised into, its caller.
Finish(res) ==
    /\ result' = res
    /\ pc' = (IF res.kind = "raised" THEN HandlerPc(mode) ELSE ReturnPc(mode))
    /\ exitCode' = (IF res.kind = "raised" /\ HandlerPc(mode) = "exit"
                    THEN UNCAUGHT ELSE exitCode)
    /\ out' = (IF mode = "loop" THEN out \o LoopReport(res)
               ELSE IF res.kind = "raised" /\ HandlerPc(mode) = "exit"
               THEN Append(out, Line("Traceback", res.error, NoPath))
               ELSE out)

\* input() raises EOFError (the input has ended): "except Exception" takes it;
\* no invocation is in progress.
LoopEOF ==
    /\ pc \in {"input", "choice"}
    /\ mode = "loop"
    /\ pc' = HandlerPc(mode)
    /\ out' = (IF pc = "input" THEN <<>> ELSE out) \o LoopReport(Raised("EOFError"))
    /\ last' = Event("eof", <<>>)
    /\ result' = Pending
    /\ ClearLocals
    /\ UNCHANGED <<startVars, mode, exitCode, client, current_model, todo, inv, calls,
                   sent, worldVars>>

\* KeyboardInterrupt anywhere in the loop's try block: "Interrupted. Goodbye!", break.
LoopInterrupt ==
    /\ pc \in {"input", "choice", "call", "extract"}
    /\ mode = "loop"
    /\ pc' = "exit"
    /\ exitCode' = 0
    /\ out' = Append(out, Line("Interrupted. Goodbye!", "", NoPath))
    /\ last' = Event("interrupt", <<>>)
    /\ UNCHANGED <<startVars, mode, client, current_model, todo, inv, calls,
                   sent, extractVars, result, worldVars>>

(* ------------------------------------------------------------------ *)
(* The library calls of core.py                                        *)
(* ------------------------------------------------------------------ *)

\* open(path, "rb") in load_image_for_api raises.
LoadFails(ref) == ref.file = "missing"

\* core.generate_image up to the remote call: output_path.mkdir(parents=True,
\* exist_ok=True), which may fail when the directory is not there yet.
CallGenerateImage ==
    /\ pc = "idle"
    /\ \E prompt \in CorePrompts, output_dir \in OutputDirs, model \in CoreModels,
          prefix \in CorePrefixes \cup {DefaultPrefix("generate_image")},
          mkdir_ok \in BOOLEAN :
         /\ inv' = Invocation("generate_image", <<TextPart(prompt)>>, model, prefix,
                              output_dir)
         /\ IF mkdir_ok \/ output_dir \in dirs
            THEN /\ dirs' = dirs \cup WithParents(output_dir)
                 /\ pc' = "call"
                 /\ result' = Pending
                 /\ out' = <<Line("Generating image", "", NoPath), Line("Model", model, NoPath)>>
                 /\ UNCHANGED exitCode
            ELSE /\ dirs' = dirs
                 /\ Finish(Raised("MkdirError"))
    /\ calls' = 0
    /\ ClearLocals
    /\ UNCHANGED <<progVars, mode, client, current_model, todo, sent, fs, now>>

\* generate_with_style_reference, edit_image and regenerate_similar up to the
\* remote call: mkdir, load_image_for_api (which may raise), the wrapped prompt.
CallWithReference ==
    /\ pc = "idle"
    /\ \E fn \in RefFunctions, text \in CorePrompts, ref \in Refs,
          output_dir \in OutputDirs, model \in CoreModels, mkdir_ok \in BOOLEAN :
         LET prefix == DefaultPrefix(fn) IN
         /\ last' = Event("reference", ref.suffix)
         /\ IF ~(mkdir_ok \/ output_dir \in dirs)
            THEN /\ inv' = Invocation(fn, <<>>, model, prefix, output_dir)
                 /\ dirs' = dirs
                 /\ Finish(Raised("MkdirError"))
            ELSE IF LoadFails(ref)
            THEN /\ inv' = Invocation(fn, <<>>, model, prefix, output_dir)
                 /\ dirs' = dirs \cup WithParents(output_dir)
                 /\ Finish(Raised("FileNotFoundError"))
            ELSE /\ inv' = Invocation(fn, <<ImagePart(ref),
                                            TextPart(WrappedPrompt(fn, text))>>,
                                      model, prefix, output_dir)
                 /\ dirs' = dirs \cup WithParents(output_dir)
                 /\ pc' = "call"
                 /\ result' = Pending
                 /\ out' = <<Line(fn, "", NoPath)>>
                 /\ UNCHANGED exitCode
    /\ calls' = 0
    /\ ClearLocals
    /\ UNCHANGED <<startVars, mode, client, current_model, todo, sent, fs, now>>

(* ------------------------------------------------------------------ *)
(* The remote call and the extraction of the response                  *)
(* ------------------------------------------------------------------ *)

\* Mutant: a failed call is tried a second time.
RemoteCall_Retry ==
    /\ pc = "call"
    /\ calls' = calls + 1
    /\ sent' = Request(inv.model, inv.contents)
    /\ \/ /\ calls >= 1
          /\ \E e \in CallErrors : Finish(Raised(e))
          /\ UNCHANGED extractVars
       \/ /\ calls = 0
          /\ UNCHANGED <<pc, exitCode, out, result, extractVars>>
       \/ \E r \in Responses :
            /\ response' = r
            /\ IF ShapeError(r) # ""
               THEN /\ Finish(Raised(ShapeError(r)))
                    /\ UNCHANGED <<parts, idx, image_path>>
               ELSE /\ parts' = ResponseParts(r)
                    /\ idx' = 1
                    /\ image_path' = NoPath
                    /\ pc' = "extract"
                    /\ UNCHANGED <<exitCode, out, result>>
    /\ UNCHANGED <<progVars, mode, client, current_model, todo, inv, worldVars>>

\* client.models.generate_content(...), then image_path = None and the
\* evaluation of response.candidates[0].content.parts.  The call raises, or
\* the response has no candidate (IndexError), or no parts (TypeError), or the
\* for loop starts on its parts.
RemoteCall ==
    /\ pc = "call"
    /\ calls' = calls + 1
    /\ sent' = Request(inv.model, inv.contents)
    /\ \/ /\ \E e \in CallErrors : Finish(Raised(e))
          /\ UNCHANGED extractVars
       \/ \E r \in Responses :
            /\ response' = r
            /\ IF ShapeError(r) # ""
               THEN /\ Finish(Raised(ShapeError(r)))
                    /\ UNCHANGED <<parts, idx, image_path>>
               ELSE /\ parts' = ResponseParts(r)
                    /\ idx' = 1
                    /\ image_path' = NoPath
                    /\ pc' = "extract"
                    /\ UNCHANGED <<exitCode, out, result>>
    /\ UNCHANGED <<progVars, mode, client, current_model, todo, inv, worldVars>>

\* The part the for loop is at.
Part == parts[idx]

\* Mutant: "if" in place of "elif": a part with text and inline data is printed
\* and saved as well.
ExtractText_AndImage ==
    /\ pc = "extract"
    /\ idx <= Len(parts)
    /\ Part.text # None
    /\ idx' = idx + 1
    /\ IF Part.inline_data # None
       THEN /\ image_path' = SavePath(inv.dir, inv.prefix, now)
            /\ fs' = Written(fs, SavePath(inv.dir, inv.prefix, now),
                             File("own", idx, "image", now))
            /\ out' = out \o << Line("Model notes", Part.text, NoPath),
                                Line("Image saved to", "", SavePath(inv.dir, inv.prefix, now)) >>
       ELSE /\ out' = Append(out, Line("Model notes", Part.text, NoPath))
            /\ UNCHANGED <<image_path, fs>>
    /\ UNCHANGED <<progVars, pc, mode, exitCode, client, current_model, todo, inv, calls,
                   sent, parts, response, result, dirs, now>>

\* Mutant: the text of a part is dropped without a print.
ExtractText_Silent ==
    /\ pc = "extract"
    /\ idx <= Len(parts)
    /\ Part.text # None
    /\ idx' = idx + 1
    /\ UNCHANGED <<progVars, pc, mode, exitCode, client, current_model, todo, inv, calls,
                   sent, parts, response, image_path, result, worldVars, out>>

\* "if part.text is not None": print the text, nothing else.
ExtractText ==
    /\ pc = "extract"
    /\ idx <= Len(parts)
    /\ Part.text # None
    /\ out' = Append(out, Line("Model notes", Part.text, NoPath))
    /\ idx' = idx + 1
    /\ UNCHANGED <<progVars, pc, mode, exitCode, client, current_model, todo, inv, calls, sent, parts, response, image_path, result, worldVars>>

\* Mutant: a failed decode or save removes what the invocation has saved so far.
SaveOutcomes_Rollback(path) ==
    LET saved == { out[i].path : i \in { j \in 1..Len(out) :
                                            out[j].tag = "Image saved to" } }
        kept == [q \in DOMAIN fs \ saved |-> fs[q]]
    IN
    \/ /\ inv.dir \in dirs
       /\ fs' = Written(fs, path, File("own", idx, "image", now))
       /\ out' = Append(out, Line("Image saved to", "", path))
       /\ idx' = idx + 1
       /\ UNCHANGED <<pc, exitCode, result>>
    \/ /\ Finish(Raised("DecodeError"))
       /\ fs' = kept
       /\ UNCHANGED idx
    \/ /\ Finish(Raised("SaveError"))
       /\ fs' = kept
       /\ UNCHANGED idx

\* part.as_image() and image.save(path): the image is written (the directory
\* has to be there), or as_image() raises, or save() raises and may then
\* leave a partial file at the path.
SaveOutcomes(path) ==
    \/ /\ inv.dir \in dirs
       /\ fs' = Written(fs, path, File("own", idx, "image", now))
       /\ out' = Append(out, Line("Image saved to", "", path))
       /\ idx' = idx + 1
       /\ UNCHANGED <<pc, exitCode, result>>
    \/ /\ Finish(Raised("DecodeError"))
       /\ UNCHANGED <<fs, idx>>
    \/ /\ Finish(Raised("SaveError"))
       /\ fs' \in {fs, Written(fs, path, File("own", idx, "partial", now))}
       /\ UNCHANGED idx

\* Mutant: only the first image part of a response is saved.
ExtractImage_FirstOnly ==
    /\ pc = "extract"
    /\ idx <= Len(parts)
    /\ Part.text = None
    /\ Part.inline_data # None
    /\ IF image_path = NoPath
       THEN /\ image_path' = SavePath(inv.dir, inv.prefix, now)
            /\ SaveOutcomes(SavePath(inv.dir, inv.prefix, now))
       ELSE /\ idx' = idx + 1
            /\ UNCHANGED <<image_path, pc, exitCode, result, fs, out>>
    /\ UNCHANGED <<progVars, mode, client, current_model, todo, inv, calls, sent, parts, response,
                   dirs, now>>

\* "elif part.inline_data is not None": the path from the prefix and the clock,
\* then the image is decoded and saved.
ExtractImage ==
    /\ pc = "extract"
    /\ idx <= Len(parts)
    /\ Part.text = None
    /\ Part.inline_data # None
    /\ image_path' = SavePath(inv.dir, inv.prefix, now)
    /\ SaveOutcomes(SavePath(inv.dir, inv.prefix, now))
    /\ UNCHANGED <<progVars, mode, client, current_model, todo, inv, calls, sent, parts, response,
                   dirs, now>>

\* A part with neither text nor inline data: no branch is taken.
ExtractOther ==
    /\ pc = "extract"
    /\ idx <= Len(parts)
    /\ Part.text = None
    /\ Part.inline_data = None
    /\ idx' = idx + 1
    /\ UNCHANGED <<progVars, pc, mode, exitCode, client, current_model, todo, inv, calls, sent, parts, response, image_path, result, worldVars, out>>

\* Mutant: a response without an image is turned into an error.
ExtractReturn_NoneIsError ==
    /\ pc = "extract"
    /\ idx > Len(parts)
    /\ Finish(IF image_path = NoPath THEN Raised("NoImage") ELSE Returned(image_path))
    /\ UNCHANGED <<progVars, mode, client, current_model, todo, inv, calls, sent,
                   extractVars, worldVars>>

\* "return str(image_path) if image_path else None": NoPath stands for None.
ExtractReturn ==
    /\ pc = "extract"
    /\ idx > Len(parts)
    /\ Finish(Returned(image_path))
    /\ UNCHANGED <<progVars, mode, client, current_model, todo, inv, calls,
                   sent, extractVars, worldVars>>

(* ------------------------------------------------------------------ *)
(* The world                                                           *)
(* ------------------------------------------------------------------ *)

\* Time passes.  The clock is read only by the extractor, so the time that
\* passes elsewhere is the time that passes while the remote call blocks.
Tick ==
    /\ pc \in {"call", "extract"}
    /\ now < MaxClock
    /\ now' = now + 1
    /\ UNCHANGED <<progVars, pc, mode, exitCode, client, current_model, todo, inv, calls, sent, extractVars, result, fs, dirs, out>>

\* An invocation running at the same time in another process, with the same
\* prefix and output directory, saves an image: the same lines of the extractor.
PeerSave ==
    /\ pc \in {"call", "extract"}
    /\ Cardinality({p \in DOMAIN fs : fs[p].by = "peer"}) < MaxPeerSaves
    /\ inv.dir \in dirs
    /\ LET path == SavePath(inv.dir, inv.prefix, now) IN
       fs' = Written(fs, path, File("peer", 0, "image", now))
    /\ UNCHANGED <<progVars, pc, mode, exitCode, client, current_model, todo, inv, calls, sent, extractVars, result, dirs, now, out>>

Next ==
    \/ BootScript
    \/ BootCore
    \/ Dispatch
    \/ Menu
    \/ BatchNext
    \/ ReadInput
    \/ ReadChoice
    \/ LoopEOF
    \/ LoopInterrupt
    \/ CallGenerateImage
    \/ CallWithReference
    \/ RemoteCall
    \/ ExtractText
    \/ ExtractImage
    \/ ExtractOther
    \/ ExtractReturn
    \/ Tick
    \/ PeerSave

Spec == Init /\ [][Next]_vars

(* ------------------------------------------------------------------ *)
(* What the claims speak of                                            *)
(* ------------------------------------------------------------------ *)

\* An InlineImage part: it carries inline data and no text.
IsImagePart(p) == p.text = None /\ p.inline_data # None

\* The InlineImage parts of a response, by position.
ImageParts(ps) == { i \in 1..Len(ps) : IsImagePart(ps[i]) }

\* The saves the invocation has done, as the console shows them.
SavedLines == { i \in 1..Len(out) : out[i].tag = "Image saved to" }

\* The paths the invocation has written an image to.
WrittenPaths == { out[i].path : i \in SavedLines }

\* The path of the last save of the invocation.
LastSaved == out[CHOOSE i \in SavedLines : \A j \in SavedLines : j <= i].path

\* The extractor has gone through the response and returned.
ExtractorReturned == result.kind = "returned"

\* The extractor is at work on a response, or has been.
ExtractorEntered == idx >= 1

(* C1 as stated: after the extractor has returned from a response with N >= 2
   InlineImage parts, N files have been written, one per image part, and the
   path returned is that of the last image part. *)
C1_NFilesLastPath ==
    (ExtractorReturned /\ Cardinality(ImageParts(parts)) >= 2) =>
        /\ Cardinality(WrittenPaths) = Cardinality(ImageParts(parts))
        /\ result.path = LastSaved

(* C1 as amended: after the extractor has returned from a response with N >= 2
   InlineImage parts, it has done N saves, one per image part, each to the
   path named by the prefix and the second of the save, so that between 1 and
   N files have been written, each of them on disk; the path returned is that
   of the last save. *)
C1_NSavesLastPath ==
    (ExtractorReturned /\ Cardinality(ImageParts(parts)) >= 2) =>
        /\ Cardinality(SavedLines) = Cardinality(ImageParts(parts))
        /\ Cardinality(WrittenPaths) >= 1
        /\ Cardinality(WrittenPaths) <= Cardinality(ImageParts(parts))
        /\ \A p \in WrittenPaths :
              /\ p \in DOMAIN fs
              /\ p.dir = inv.dir
              /\ p.name.prefix = inv.prefix
              /\ fs[p].mtime = p.name.stamp
        /\ result.path = LastSaved

\* C1's case: two image parts saved in different seconds, to two files, returned.
C1_Witness ==
    /\ ExtractorReturned
    /\ Cardinality(ImageParts(parts)) = 2
    /\ Cardinality(WrittenPaths) = 2
    /\ result.path = LastSaved

(* C2: on a response without an InlineImage part, a response of no parts
   included, the extractor writes no file and does not raise, and what it
   returns is None. *)
C2_NoImageNoWrite ==
    /\ [](( ExtractorEntered /\ ImageParts(parts) = {} ) =>
            /\ result.kind # "raised"
            /\ SavedLines = {}
            /\ image_path = NoPath
            /\ (ExtractorReturned => result.path = NoPath))
    /\ [][( pc = "extract" /\ ImageParts(parts) = {} ) => (fs' = fs \/ PeerSave)]_vars

\* C2's case: the extractor has returned None from a response of text parts only.
C2_Witness ==
    /\ ExtractorReturned
    /\ ExtractorEntered
    /\ Len(parts) = MaxParts
    /\ ImageParts(parts) = {}
    /\ result.path = NoPath

(* C3: after the extractor has returned from a response with exactly one
   InlineImage part, whatever text parts surround it, it has written exactly
   one file, in the output directory, named by the prefix, the second of the
   save and ".png", and has returned the path of that file. *)
C3_OneImageOneFile ==
    (ExtractorReturned /\ Cardinality(ImageParts(parts)) = 1) =>
        /\ Cardinality(SavedLines) = 1
        /\ \E p \in DOMAIN fs :
              /\ WrittenPaths = {p}
              /\ p.dir = inv.dir
              /\ p.name.prefix = inv.prefix
              /\ p.name.ext = ".png"
              /\ p.name.stamp = fs[p].mtime
              /\ fs[p].state = "image"
              /\ result.path = p

\* C3's case: one image part after a text part, saved by a project script.
C3_Witness ==
    /\ ExtractorReturned
    /\ Len(parts) = 2
    /\ parts[1].text # None
    /\ IsImagePart(parts[2])
    /\ inv.prefix = "batio3_mbe_pro"
    /\ result.path \in DOMAIN fs
(* C4: two saves under the same prefix and directory within one clock second,
   by two image parts, two invocations or a concurrent invocation, go to one
   path: a save changes no file but the one named by the directory, the prefix
   and the current second, which it creates or overwrites, and no two files on
   disk share directory, prefix and second of writing. *)
C4_SameSecondSamePath ==
    /\ [](\A p \in DOMAIN fs : \A q \in DOMAIN fs :
            ( /\ p.dir = q.dir
              /\ p.name.prefix = q.name.prefix
              /\ fs[p].mtime = fs[q].mtime ) => p = q)
    /\ [][fs' # fs =>
            LET target == [dir |-> inv.dir,
                           name |-> [prefix |-> inv.prefix,
                                     stamp |-> now \div TicksPerSecond,
                                     ext |-> ".png"]]
            IN /\ DOMAIN fs' = DOMAIN fs \cup {target}
               /\ \A q \in DOMAIN fs \ {target} : fs'[q] = fs[q]
               /\ fs'[target].mtime = now \div TicksPerSecond]_vars

\* C4's case: two image parts of one response and a concurrent invocation have
\* saved within one second; one file remains, the one written last.
C4_Witness ==
    /\ Cardinality(SavedLines) = 2
    /\ Cardinality(WrittenPaths) = 1
    /\ DOMAIN fs = WrittenPaths
    /\ fs[LastSaved].by = "peer"

(* C5: the step that processes a Text part leaves every file as it was and
   prints the text of the part on the console. *)
C5_TextPartNoWrite ==
    [][( /\ pc = "extract"
         /\ idx <= Len(parts)
         /\ parts[idx].text # None
         /\ idx' = idx + 1 ) =>
            /\ fs' = fs
            /\ dirs' = dirs
            /\ out' = Append(out, [tag |-> "Model notes", text |-> parts[idx].text,
                                   path |-> NoPath])]_vars

\* C5's case: a response of text parts has been processed, its text is on the
\* console and the disk is empty.
C5_Witness ==
    /\ ExtractorReturned
    /\ Len(parts) >= 1
    /\ \A i \in 1..Len(parts) : parts[i].text # None
    /\ \E i \in 1..Len(out) : out[i].tag = "Model notes" /\ out[i].text = "note"
    /\ DOMAIN fs = {}

(* C6: in the interactive loop an error raised while a prompt is handled, by
   the remote call, the decoding or the save, and an error of input() itself,
   is reported, leaves exit code and model as they were, and is followed by
   the wait for the next prompt. *)
C6_LoopSurvivesErrors ==
    [][( /\ mode = "loop"
         /\ \/ result.kind = "pending" /\ result'.kind = "raised"
            \/ last'.kind = "eof" ) =>
            /\ pc' = "input"
            /\ mode' = "loop"
            /\ exitCode' = exitCode
            /\ current_model' = current_model
            /\ \E i \in 1..Len(out') : out'[i].tag = "Error"]_vars

\* C6's case: after a switch of model and a failed save the loop waits for the
\* next prompt.
C6_Witness ==
    /\ mode = "loop"
    /\ pc = "input"
    /\ result.kind = "raised"
    /\ result.error = "SaveError"
    /\ current_model # FLASH_IMAGE
    /\ exitCode = 0

(* C7: without GEMINI_API_KEY in the environment no script and no module gets
   past its start: no client is made, no request is sent, and the process ends
   with an exit code other than 0. *)
C7_NoKeyNoStart ==
    environ = None =>
        /\ client = FALSE
        /\ calls = 0
        /\ sent = NoRequest
        /\ pc \in {"boot", "exit"}
        /\ (pc = "exit" => exitCode # 0)

\* C7's case: core.py has been started without the key and has ended.
C7_Witness ==
    /\ environ = None
    /\ script = "core"
    /\ pc = "exit"
    /\ exitCode = 1
    /\ client = FALSE

(* C8 as stated: an invocation that has ended, with a result or an error, has
   issued exactly one remote call. *)
C8_ExactlyOneCall ==
    result.kind # "pending" => calls = 1

(* C8 as amended: an invocation issues at most one remote call, a failed call
   being never repeated, and an invocation that has ended has issued exactly
   one unless it failed before the call, on the output directory or on the
   reference image. *)
C8_AtMostOneCall ==
    /\ calls <= 1
    /\ result.kind # "pending" =>
          (calls = 0 <=> result.error \in {"MkdirError", "FileNotFoundError"})

\* C8's case: a remote call has failed and the invocation has ended with that
\* one call.
C8_Witness ==
    /\ result.kind = "raised"
    /\ result.error \in CallErrors
    /\ calls = 1
    /\ sent # NoRequest

(* C9: in the interactive loop the input quit, in any case and with any
   blanks around it, ends the loop with exit code 0 and without a remote
   call. *)
C9_QuitEndsLoop ==
    [][( /\ pc = "input"
         /\ last'.kind = "input"
         /\ Lower(Strip(last'.text)) = <<"q", "u", "i", "t">> ) =>
            /\ pc' = "exit"
            /\ exitCode' = 0
            /\ calls' = calls
            /\ sent' = sent
            /\ fs' = fs]_vars

\* C9's case: " QuIT " typed after a prompt that wrote a file and a switch of
\* model.
C9_Witness ==
    /\ pc = "exit"
    /\ mode = "loop"
    /\ last = [kind |-> "input", text |-> <<" ", "Q", "u", "I", "T", " ">>]
    /\ current_model # FLASH_IMAGE
    /\ DOMAIN fs # {}
    /\ exitCode = 0

(* C10: every request sent asks for the response modalities IMAGE and TEXT
   and carries exactly one text part; the request of an invocation without a
   reference image carries nothing else, the request of one with a reference
   image carries exactly one image part besides. *)
C10_RequestShape ==
    sent # NoRequest =>
        LET images == { i \in 1..Len(sent.contents) : sent.contents[i].kind = "image" }
            texts == { i \in 1..Len(sent.contents) : sent.contents[i].kind = "text" }
        IN /\ sent.response_modalities = {"IMAGE", "TEXT"}
           /\ Cardinality(texts) = 1
           /\ Cardinality(images) <= 1
           /\ Len(sent.contents) = Cardinality(texts) + Cardinality(images)
           /\ calls = 1 => (Cardinality(images) = 1 <=> inv.fn \in RefFunctions)

\* C10's case: a request with a reference image has been sent.
C10_Witness ==
    /\ sent # NoRequest
    /\ inv.fn \in RefFunctions
    /\ \E i \in 1..Len(sent.contents) : sent.contents[i].kind = "image"
    /\ sent.response_modalities = {"IMAGE", "TEXT"}

\* The image parts of the request that was sent.
SentImages ==
    IF sent = NoRequest THEN {}
    ELSE { sent.contents[i] : i \in { j \in 1..Len(sent.contents) :
                                        sent.contents[j].kind = "image" } }

(* C11 as stated: a reference file that cannot be read, or that is empty, makes
   the building of the request fail, so that no request is sent for it: no
   request sent carries the bytes of a missing or an empty reference file, and
   an invocation that failed on its reference file has issued no remote
   call. *)
C11_BadReferenceNoCall ==
    /\ \A part \in SentImages : part.data \notin {"missing", "empty"}
    /\ result.error = "FileNotFoundError" => (calls = 0 /\ sent = NoRequest)

\* The directory and every ancestor of it on the way from the working directory.
Ancestry(dir) == { SubSeq(dir, 1, n) : n \in 1..Len(dir) }

(* C12: an output directory that is not there before the call is created with
   all its ancestors before the remote call is made, and so before a file is
   written into it: the start of an invocation that goes on to the call leaves
   the whole ancestry of the directory in place, and every file on disk lies
   in a directory that exists with all its ancestors. *)
C12_DirectoryBeforeWrite ==
    /\ [](\A p \in DOMAIN fs : Ancestry(p.dir) \subseteq dirs)
    /\ [](pc \in {"call", "extract"} => Ancestry(inv.dir) \subseteq dirs)
    /\ [][( pc = "idle" /\ pc' = "call" ) =>
            ( dirs' = dirs \cup Ancestry(inv'.dir) /\ fs' = fs )]_vars

\* C12's case: a file written by core.py into out/run, neither directory having
\* been there at the start.
C12_Witness ==
    /\ script = "core"
    /\ \E p \in DOMAIN fs : p.dir = <<"out", "run">> /\ fs[p].by = "own"
    /\ dirs = {<<"out">>, <<"out", "run">>}

\* The reference image has been loaded for the invocation: the image part the
\* request is built with.
LoadedReference == inv.contents[1]

\* A reference image was passed and load_image_for_api has returned its part.
ReferenceLoaded ==
    /\ last.kind = "reference"
    /\ inv.fn \in RefFunctions
    /\ Len(inv.contents) >= 1
    /\ inv.contents[1].kind = "image"

(* C13: the mime type load_image_for_api gives the image part follows from the
   extension of the path with the case of its letters ignored: .png gives
   image/png, .jpg and .jpeg image/jpeg, .webp image/webp, .gif image/gif, and
   any other extension, or none, image/png. *)
C13_MimeByExtension ==
    ReferenceLoaded =>
        LET extension == Lower(last.text) IN
        /\ extension = <<".", "p", "n", "g">> => LoadedReference.mime_type = "image/png"
        /\ extension = <<".", "j", "p", "g">> => LoadedReference.mime_type = "image/jpeg"
        /\ extension = <<".", "j", "p", "e", "g">> =>
              LoadedReference.mime_type = "image/jpeg"
        /\ extension = <<".", "w", "e", "b", "p">> =>
              LoadedReference.mime_type = "image/webp"
        /\ extension = <<".", "g", "i", "f">> => LoadedReference.mime_type = "image/gif"
        /\ extension \notin { <<".", "p", "n", "g">>, <<".", "j", "p", "g">>,
                              <<".", "j", "p", "e", "g">>, <<".", "w", "e", "b", "p">>,
                              <<".", "g", "i", "f">> } =>
              LoadedReference.mime_type = "image/png"

\* C13's case: a reference named *.JpeG has been loaded and sent as image/jpeg.
C13_Witness ==
    /\ ReferenceLoaded
    /\ last.text = <<".", "J", "p", "e", "G">>
    /\ calls = 1
    /\ \E part \in SentImages : part.mime_type = "image/jpeg"

\* generate.py was started with at least one argument.
OneShotRun == script = "generate" /\ Len(argv) >= 1

\* The arguments with one space between each two of them.
Spaced(words) ==
    CASE Len(words) = 1 -> words[1]
      [] Len(words) = 2 -> words[1] \o <<" ">> \o words[2]
      [] OTHER -> words[1] \o <<" ">> \o words[2] \o <<" ">> \o words[3]

\* The one request a one-shot run may send.
OneShotRequest ==
    [model |-> "gemini-2.5-flash-image",
     contents |-> << [kind |-> "text", text |-> Spaced(argv), mime_type |-> "",
                      data |-> ""] >>,
     response_modalities |-> {"IMAGE", "TEXT"}]

(* C14: generate.py started with arguments never enters the interactive loop
   and reads no input; it makes one generation, whose request carries the
   arguments joined by single spaces and the default model, and then ends with
   code 0; an error of that generation is not caught and ends the process
   with a code other than 0. *)
C14_OneShot ==
    OneShotRun =>
        /\ mode # "loop"
        /\ pc \notin {"input", "choice", "menu"}
        /\ last.kind = "none"
        /\ Len(todo) <= 1
        /\ pc \in {"call", "extract"} => todo = <<>>
        /\ sent \in {NoRequest, OneShotRequest}
        /\ calls <= 1
        /\ result.kind = "raised" => (pc = "exit" /\ exitCode # 0)
        /\ (pc = "exit" /\ exitCode = 0) =>
              (todo = <<>> /\ calls = 1 /\ sent = OneShotRequest
               /\ result.kind = "returned")

\* C14's case: "generate.py a dog" has sent its request and died of a failed
\* save.
C14_Witness ==
    /\ OneShotRun
    /\ argv = << <<"a">>, <<"d", "o", "g">> >>
    /\ sent = OneShotRequest
    /\ sent.contents[1].text = <<"a", " ", "d", "o", "g">>
    /\ result.error = "SaveError"
    /\ pc = "exit"
    /\ exitCode = 1

\* The model the loop's model command selects for what was typed as the choice.
Selected(typed) ==
    CASE Strip(typed) = <<"2">> -> "gemini-3-pro-image-preview"
      [] Strip(typed) = <<"3">> -> "imagen-4.0-generate-001"
      [] OTHER -> "gemini-2.5-flash-image"

(* C15: in the interactive loop the current model is one of the three fixed
   identifiers; it is gemini-2.5-flash-image when the loop starts; the model
   command sets it by the choice typed, "2" the second, "3" the third, any
   other the first; it changes at no other step, whatever prompts and errors
   follow, and it is the model of every prompt's invocation; the model command
   and an empty input issue no remote call. *)
C15_ModelSelection ==
    /\ [](mode = "loop" =>
            /\ current_model \in { "gemini-2.5-flash-image",
                                   "gemini-3-pro-image-preview",
                                   "imagen-4.0-generate-001" }
            /\ pc \in {"call", "extract"} => inv.model = current_model)
    /\ [][( mode # "loop" /\ mode' = "loop" ) =>
            current_model' = "gemini-2.5-flash-image"]_vars
    /\ [][( pc = "choice" /\ last'.kind = "choice" ) =>
            /\ current_model' = Selected(last'.text)
            /\ pc' = "input"
            /\ calls' = calls
            /\ sent' = sent]_vars
    /\ [][( mode = "loop" /\ current_model' # current_model ) =>
            ( pc = "choice" /\ last'.kind = "choice" )]_vars
    /\ [][( pc = "input" /\ last'.kind = "input"
            /\ ( Strip(last'.text) = <<>>
                 \/ Lower(Strip(last'.text)) = <<"m", "o", "d", "e", "l">> ) ) =>
            /\ calls' = calls
            /\ sent' = sent
            /\ pc' = (IF Strip(last'.text) = <<>> THEN "input" ELSE "choice")
            /\ current_model' = current_model]_vars

\* C15's case: the third model, chosen with " 3 ", is still the current one
\* after a prompt that failed, and a request has gone out with it.
C15_Witness ==
    /\ mode = "loop"
    /\ pc = "input"
    /\ current_model = "imagen-4.0-generate-001"
    /\ result.kind = "raised"
    /\ sent.model = "imagen-4.0-generate-001"
    /\ last.kind = "input"

\* The extractor has failed on an image part: its decoding or its save raised.
ExtractorFailed == result.kind = "raised" /\ result.error \in {"DecodeError", "SaveError"}

\* The lines the extractor has printed for the text of parts.
NotesLines == { i \in 1..Len(out) : out[i].tag = "Model notes" }

(* C16: when the decoding or the save of an image part fails, the invocation
   raises and returns no path, the parts after it are not processed, and no
   file is removed: every file on disk stays, unchanged unless it is at the
   very path the failed save was writing to; what the earlier parts of the
   response printed and saved is all the invocation has printed and saved. *)
C16_NoRollback ==
    /\ [](ExtractorFailed =>
            /\ pc # "extract"
            /\ result.path = NoPath
            /\ idx \in ImageParts(parts)
            /\ Cardinality(SavedLines) =
                  Cardinality({ i \in ImageParts(parts) : i < idx })
            /\ Cardinality(NotesLines) =
                  Cardinality({ i \in 1..(idx - 1) : parts[i].text # None })
            /\ WrittenPaths \subseteq DOMAIN fs)
    /\ [][( pc = "extract" /\ result'.kind = "raised" ) =>
            LET target == [dir |-> inv.dir,
                           name |-> [prefix |-> inv.prefix,
                                     stamp |-> now \div TicksPerSecond,
                                     ext |-> ".png"]]
            IN /\ result'.error \in {"DecodeError", "SaveError"}
               /\ idx \in ImageParts(parts)
               /\ idx' = idx
               /\ parts' = parts
               /\ DOMAIN fs \subseteq DOMAIN fs'
               /\ \A p \in DOMAIN fs : p # target => fs'[p] = fs[p]
               /\ result'.error = "DecodeError" => fs' = fs]_vars

\* C16's case: the first image part was saved in one second, the save of the
\* second failed in the next; the first file is on disk as it was written.
C16_Witness ==
    /\ ExtractorFailed
    /\ result.error = "SaveError"
    /\ Len(parts) = 2
    /\ idx = 2
    /\ Cardinality(SavedLines) = 1
    /\ \E p \in WrittenPaths : fs[p].state = "image" /\ fs[p].part = 1 /\ fs[p].by = "own"
    /\ \E q \in DOMAIN fs : fs[q].state = "partial"

\* A part that carries text and inline image data at once.
IsHybridPart(p) == p.text # None /\ p.inline_data # None

\* The parts of a response that carry text and inline data at once, by position.
HybridParts(ps) == { i \in 1..Len(ps) : IsHybridPart(ps[i]) }

(* C17: a part with both text and inline data is handled as text alone: the
   step that processes it prints its text, writes no file and leaves the path
   to return as it was, so that a response whose image data all lies in such
   parts is answered with None and no file. *)
C17_HybridIsText ==
    /\ [][( /\ pc = "extract"
            /\ idx \in HybridParts(parts)
            /\ idx' # idx ) =>
            /\ idx' = idx + 1
            /\ fs' = fs
            /\ image_path' = image_path
            /\ result' = result
            /\ out' = Append(out, [tag |-> "Model notes", text |-> parts[idx].text,
                                   path |-> NoPath])]_vars
    /\ []((ExtractorReturned /\ ImageParts(parts) = {} /\ HybridParts(parts) # {}) =>
            /\ result.path = NoPath
            /\ SavedLines = {}
            /\ Cardinality(NotesLines) >= Cardinality(HybridParts(parts)))

\* C17's case: a response of an image part and then a part with text and data
\* has been answered with the path of the first part, the only file.
C17_Witness ==
    /\ ExtractorReturned
    /\ Len(parts) = 2
    /\ IsImagePart(parts[1])
    /\ IsHybridPart(parts[2])
    /\ Cardinality(SavedLines) = 1
    /\ NotesLines # {}
    /\ Cardinality(DOMAIN fs) = 1
    /\ result.path \in DOMAIN fs
    /\ fs[result.path].part = 1

\* The response has no first candidate with a sequence of parts.
Unusable(r) ==
    \/ ~r.has_candidates
    \/ r.candidates = <<>>
    \/ ~r.candidates[1].has_parts

\* A candidate after the first carries an image part.
LaterImages(r) ==
    \E k \in 2..Len(r.candidates) :
        r.candidates[k].has_parts /\ ImageParts(r.candidates[k].parts) # {}

(* C18: the extractor goes through the parts of the first candidate and no
   others: what it saves are image parts of the first candidate, and it
   returns None exactly when the first candidate has none, whatever later
   candidates carry; a response without candidates, or whose first candidate
   has no sequence of parts, makes it raise before any part is processed. *)
C18_FirstCandidateOnly ==
    /\ [](response.received =>
            IF Unusable(response)
            THEN /\ result.kind = "raised"
                 /\ result.error \in {"IndexError", "TypeError"}
                 /\ pc # "extract"
                 /\ idx = 0
                 /\ SavedLines = {}
                 /\ NotesLines = {}
            ELSE /\ parts = response.candidates[1].parts
                 /\ idx >= 1
                 /\ Cardinality(SavedLines) =
                       Cardinality({ i \in ImageParts(response.candidates[1].parts) :
                                       i < idx })
                 /\ ExtractorReturned =>
                       ( result.path = NoPath <=>
                            ImageParts(response.candidates[1].parts) = {} ))
    /\ [][( pc = "extract" /\ fs' # fs /\ ~PeerSave ) =>
            idx \in ImageParts(response.candidates[1].parts)]_vars

\* C18's case: the first candidate carried text only, the second an image; the
\* extractor has returned None and the disk is empty.
C18_Witness ==
    /\ ExtractorReturned
    /\ response.received
    /\ Len(response.candidates) = 2
    /\ LaterImages(response)
    /\ Len(response.candidates[1].parts) = 1
    /\ ImageParts(response.candidates[1].parts) = {}
    /\ result.path = NoPath
    /\ DOMAIN fs = {}
====
